---- MODULE Spec2Model ----
(***************************************************************************)
(* A model of check_vector_safety.py: the regular-expression scan of a     *)
(* C++ file for vec[5], vec.at(5) and vec.empty(), and the report printed  *)
(* by analyze_cpp_file.                                                    *)
(*                                                                         *)
(* Text is a sequence of one-character strings.  Positions are 1-based     *)
(* here; a match's "start" is Python's 0-based match.start().              *)
(***************************************************************************)
EXTENDS Integers, Sequences, FiniteSets, TLC

(***************************************************************************)
(* Bounds of the model and the input vocabulary.                           *)
(***************************************************************************)

\* the file content is a concatenation of at most MaxTokens tokens
MaxTokens == 3

NL == "\n"

\* the fragments file contents are built from; NewLine ends a line
TokIndexed    == <<"v", "[", "0", "]">>
TokIndexedWs  == <<"v", " ", "[", " ", "1", " ", "]">>
TokAt         == <<"v", ".", "a", "t", "(", "2", ")">>
TokAtWs       == <<"v", ".", "a", "t", " ", "(", " ", "1", " ", ")">>
TokEmpty      == <<"v", ".", "e", "m", "p", "t", "y", "(", ")">>
TokEmptyWs    == <<"v", ".", "e", "m", "p", "t", "y", " ", "(", " ", ")">>
TokDotWsEmpty == <<"v", ".", " ", "e", "m", "p", "t", "y", "(", ")">>
TokNonLiteral == <<"v", "[", "i", "]">>
TokIdent      == <<"w">>
TokOpen       == <<"[">>
TokDigit      == <<"1">>
TokNewLine    == <<NL>>

Tokens ==
    { TokIndexed, TokIndexedWs, TokAt, TokAtWs, TokEmpty, TokEmptyWs,
      TokDotWsEmpty, TokNonLiteral, TokIdent, TokOpen, TokDigit, TokNewLine }

RECURSIVE Flatten(_)
Flatten(toks) ==
    IF toks = <<>> THEN <<>> ELSE Head(toks) \o Flatten(Tail(toks))

TokenSeqs == UNION { [1..n -> Tokens] : n \in 0..MaxTokens }

\* every file content the model analyses
Contents == { Flatten(ts) : ts \in TokenSeqs }

\* the path handed to analyze_cpp_file
FilePath == "f.cpp"

(***************************************************************************)
(* Character classes of Python's re, restricted to the model's alphabet.   *)
(***************************************************************************)

\* [a-zA-Z_]
IdentStartChars == {"v", "w", "a", "t", "e", "m", "p", "y", "i", "_"}
\* \d
DigitChars == {"0", "1", "2"}
\* \w
WordChars == IdentStartChars \cup DigitChars
\* \s
SpaceChars == {" ", NL}

\* \b at position pos: exactly one side of the gap before pos is a \w
WordBoundary(line, pos) ==
    LET before == pos > 1 /\ line[pos - 1] \in WordChars
        after  == pos <= Len(line) /\ line[pos] \in WordChars
    IN  before # after

\* a greedy X*: the first position from pos on whose character is not in class
RECURSIVE SkipClass(_, _, _)
SkipClass(line, pos, class) ==
    IF pos <= Len(line) /\ line[pos] \in class
    THEN SkipClass(line, pos + 1, class)
    ELSE pos

\* the literal lit stands at position pos
LiteralAt(line, pos, lit) ==
    /\ pos + Len(lit) - 1 <= Len(line)
    /\ \A i \in 1..Len(lit) : line[pos + i - 1] = lit[i]

CharAt(line, pos, c) == pos <= Len(line) /\ line[pos] = c

NoMatch == [matched |-> FALSE]

MatchOf(line, pos, nameStop, idxStart, idxStop, stop) ==
    [matched |-> TRUE,
     name    |-> SubSeq(line, pos, nameStop - 1),
     index   |-> SubSeq(line, idxStart, idxStop - 1),
     start   |-> pos - 1,
     stop    |-> stop]

(***************************************************************************)
(* The patterns.  Each greedy class is followed by a character outside the *)
(* class, so giving characters back (backtracking) never turns a failed    *)
(* attempt into a match: one greedy pass decides the attempt at pos.       *)
(***************************************************************************)

\* IndexTail with (\w+) for (\d+): any word between the brackets is an index
IndexTailAnyWord(line, pos, nameStop, from, close) ==
    LET idxStart == SkipClass(line, from, SpaceChars)
        idxStop  == SkipClass(line, idxStart, WordChars)
        closeAt  == SkipClass(line, idxStop, SpaceChars)
    IN  IF idxStop > idxStart /\ CharAt(line, closeAt, close)
        THEN MatchOf(line, pos, nameStop, idxStart, idxStop, closeAt + 1)
        ELSE NoMatch

\* the digits, the closing character, and the match record:  \s*(\d+)\s*<close>
IndexTail(line, pos, nameStop, from, close) ==
    LET idxStart == SkipClass(line, from, SpaceChars)
        idxStop  == SkipClass(line, idxStart, DigitChars)
        closeAt  == SkipClass(line, idxStop, SpaceChars)
    IN  IF idxStop > idxStart /\ CharAt(line, closeAt, close)
        THEN MatchOf(line, pos, nameStop, idxStart, idxStop, closeAt + 1)
        ELSE NoMatch

\* \b([a-zA-Z_]\w*) at pos: the position after the name, or 0
NameStop(line, pos) ==
    IF /\ WordBoundary(line, pos)
       /\ pos <= Len(line)
       /\ line[pos] \in IdentStartChars
    THEN SkipClass(line, pos + 1, WordChars)
    ELSE 0

\* vector_access_pattern without the \s* before \[
vector_access_pattern_no_gap(line, pos) ==
    LET nameStop == NameStop(line, pos)
    IN  IF nameStop # 0 /\ CharAt(line, nameStop, "[")
        THEN IndexTail(line, pos, nameStop, nameStop + 1, "]")
        ELSE NoMatch

\* r'\b([a-zA-Z_]\w*)\s*\[\s*(\d+)\s*\]' attempted at pos
vector_access_pattern(line, pos) ==
    LET nameStop == NameStop(line, pos)
        open     == SkipClass(line, nameStop, SpaceChars)
    IN  IF nameStop # 0 /\ CharAt(line, open, "[")
        THEN IndexTail(line, pos, nameStop, open + 1, "]")
        ELSE NoMatch

\* r'\b([a-zA-Z_]\w*)\.at\s*\(\s*(\d+)\s*\)' attempted at pos
vector_at_pattern(line, pos) ==
    LET nameStop == NameStop(line, pos)
        open     == SkipClass(line, nameStop + 3, SpaceChars)
    IN  IF /\ nameStop # 0
           /\ LiteralAt(line, nameStop, <<".", "a", "t">>)
           /\ CharAt(line, open, "(")
        THEN IndexTail(line, pos, nameStop, open + 1, ")")
        ELSE NoMatch

\* vector_empty_pattern with a \s* between \. and empty
vector_empty_pattern_dot_gap(vector, line, pos) ==
    LET nameStop == pos + Len(vector)
        word     == SkipClass(line, nameStop + 1, SpaceChars)
        open     == SkipClass(line, word + 5, SpaceChars)
        close    == SkipClass(line, open + 1, SpaceChars)
    IN  /\ WordBoundary(line, pos)
        /\ LiteralAt(line, pos, vector)
        /\ CharAt(line, nameStop, ".")
        /\ LiteralAt(line, word, <<"e", "m", "p", "t", "y">>)
        /\ CharAt(line, open, "(")
        /\ CharAt(line, close, ")")

\* rf'\b{vector}\.empty\s*\(\s*\)' attempted at pos
vector_empty_pattern(vector, line, pos) ==
    LET nameStop == pos + Len(vector)
        open     == SkipClass(line, nameStop + 6, SpaceChars)
        close    == SkipClass(line, open + 1, SpaceChars)
    IN  /\ WordBoundary(line, pos)
        /\ LiteralAt(line, pos, vector)
        /\ LiteralAt(line, nameStop, <<".", "e", "m", "p", "t", "y">>)
        /\ CharAt(line, open, "(")
        /\ CharAt(line, close, ")")

PatternAt(pattern, line, pos) ==
    IF pattern = "access"
    THEN vector_access_pattern(line, pos)
    ELSE vector_at_pattern(line, pos)

\* re.finditer: the non-overlapping matches, scanning left to right from pos
RECURSIVE finditer(_, _, _)
finditer(pattern, line, pos) ==
    IF pos > Len(line) THEN <<>>
    ELSE LET m == PatternAt(pattern, line, pos)
         IN  IF m.matched
             THEN <<m>> \o finditer(pattern, line, m.stop)
             ELSE finditer(pattern, line, pos + 1)

\* re.search(rf'\b{vector}\.empty\s*\(\s*\)', line)
re_search_empty(vector, line) ==
    \E pos \in 1..Len(line) : vector_empty_pattern(vector, line, pos)

(***************************************************************************)
(* file.readlines(): the content split after each "\n", line ends kept.    *)
(***************************************************************************)

RECURSIVE readlines(_, _)
readlines(content, cur) ==
    IF content = <<>>
    THEN IF cur = <<>> THEN <<>> ELSE <<cur>>
    ELSE IF Head(content) = NL
         THEN <<Append(cur, NL)>> \o readlines(Tail(content), <<>>)
         ELSE readlines(Tail(content), Append(cur, Head(content)))

(***************************************************************************)
(* Issues.  The program renders an issue as a string; the model keeps the  *)
(* parts the string is formatted from.  "start" (match.start()) is not in  *)
(* the string: it is kept so the order of the matches can be stated.       *)
(***************************************************************************)

\* f"Warning: Potential out-of-range access using '{name}[{index}]' at line {n}"
OutOfRangeWarning(m, line_num) ==
    [kind |-> "OutOfRangeWarning", name |-> m.name, index |-> m.index,
     line |-> line_num, start |-> m.start]

\* f"Info: Safe access found using '{name}.at({index})' at line {n}"
SafeAccessInfo(m, line_num) ==
    [kind |-> "SafeAccessInfo", name |-> m.name, index |-> m.index,
     line |-> line_num, start |-> m.start]

\* f"Warning: No empty() check found before accessing '{vector}' at line {n}"
MissingEmptyCheckWarning(vector, line_num) ==
    [kind |-> "MissingEmptyCheckWarning", name |-> vector, line |-> line_num]

Range(seq) == { seq[i] : i \in 1..Len(seq) }

(***************************************************************************)
(* check_vector_access                                                     *)
(***************************************************************************)

\* LineIssues with the two inner loops swapped
LineIssuesAtFirst(line, line_num) ==
    LET access_matches == finditer("access", line, 1)
        at_matches     == finditer("at", line, 1)
    IN  [i \in 1..Len(at_matches) |->
            SafeAccessInfo(at_matches[i], line_num)]
        \o
        [i \in 1..Len(access_matches) |->
            OutOfRangeWarning(access_matches[i], line_num)]

\* the body of the loop over the lines: the [] matches, then the .at() matches
LineIssues(line, line_num) ==
    LET access_matches == finditer("access", line, 1)
        at_matches     == finditer("at", line, 1)
    IN  [i \in 1..Len(access_matches) |->
            OutOfRangeWarning(access_matches[i], line_num)]
        \o
        [i \in 1..Len(at_matches) |->
            SafeAccessInfo(at_matches[i], line_num)]

\* enumerate(file_lines, start=1), from line_num on
RECURSIVE IssuesFrom(_, _)
IssuesFrom(file_lines, line_num) ==
    IF line_num > Len(file_lines) THEN <<>>
    ELSE LineIssues(file_lines[line_num], line_num)
         \o IssuesFrom(file_lines, line_num + 1)

check_vector_access(file_lines) == IssuesFrom(file_lines, 1)

(***************************************************************************)
(* check_empty_before_access                                               *)
(***************************************************************************)

\* AccessRecords without the loop over at_matches
AccessRecordsBracketOnly(file_lines) ==
    UNION { { <<m.name, line_num>> :
                m \in Range(finditer("access", file_lines[line_num], 1)) }
            : line_num \in 1..Len(file_lines) }

\* AccessRecords with enumerate(file_lines) for enumerate(file_lines, start=1)
AccessRecordsZeroBased(file_lines) ==
    UNION { { <<m.name, line_num - 1>> :
                m \in Range(finditer("access", file_lines[line_num], 1))
                      \cup Range(finditer("at", file_lines[line_num], 1)) }
            : line_num \in 1..Len(file_lines) }

\* the first loop: the set of (vector_name, line_num) of every match
AccessRecords(file_lines) ==
    UNION { { <<m.name, line_num>> :
                m \in Range(finditer("access", file_lines[line_num], 1))
                      \cup Range(finditer("at", file_lines[line_num], 1)) }
            : line_num \in 1..Len(file_lines) }

\* any(re.search(rf'\b{vector}\.empty\s*\(\s*\)', line) for line in file_lines)
empty_check_found(vector, file_lines) ==
    \E k \in 1..Len(file_lines) : re_search_empty(vector, file_lines[k])

\* MissingEmptyIssues searching only the lines before the access
RECURSIVE MissingEmptyIssuesBefore(_, _)
MissingEmptyIssuesBefore(order, file_lines) ==
    IF order = <<>> THEN <<>>
    ELSE LET vector   == Head(order)[1]
             line_num == Head(order)[2]
             rest     == MissingEmptyIssuesBefore(Tail(order), file_lines)
         IN  IF ~empty_check_found(vector, SubSeq(file_lines, 1, line_num - 1))
             THEN <<MissingEmptyCheckWarning(vector, line_num)>> \o rest
             ELSE rest

\* the second loop, over the set in the order the iteration yields its elements
RECURSIVE MissingEmptyIssues(_, _)
MissingEmptyIssues(order, file_lines) ==
    IF order = <<>> THEN <<>>
    ELSE LET vector   == Head(order)[1]
             line_num == Head(order)[2]
             rest     == MissingEmptyIssues(Tail(order), file_lines)
         IN  IF ~empty_check_found(vector, file_lines)
             THEN <<MissingEmptyCheckWarning(vector, line_num)>> \o rest
             ELSE rest

\* the orders in which iterating a set can yield its elements: the order
\* follows the elements' hashes, and str hashes are salted per process
IterationOrders(S) ==
    { f \in [1..Cardinality(S) -> S] :
        \A i, j \in 1..Cardinality(S) : i # j => f[i] # f[j] }

(***************************************************************************)
(* analyze_cpp_file, step by step                                          *)
(***************************************************************************)

VARIABLES
    content,           \* the characters of the file at FilePath
    readable,          \* whether open() and the decoding succeed
    pc,                \* where analyze_cpp_file stands
    file_lines,        \* file.readlines()
    issues,            \* the issues list
    vectors_accessed,  \* the set built by check_empty_before_access
    stdout,            \* the lines printed so far
    run,               \* 1, or 2 when the analysis is run again
    first_stdout       \* what the first run printed, once it is run again

vars == <<content, readable, pc, file_lines, issues, vectors_accessed,
          stdout, run, first_stdout>>

Init ==
    /\ content \in Contents
    /\ readable \in BOOLEAN
    /\ pc = "open"
    /\ file_lines = <<>>
    /\ issues = <<>>
    /\ vectors_accessed = {}
    /\ stdout = <<>>
    /\ run = 1
    /\ first_stdout = <<>>

\* with open(...) as file: file_lines = file.readlines(); issues = []
ReadFile ==
    /\ pc = "open"
    /\ readable
    /\ file_lines' = readlines(content, <<>>)
    /\ issues' = <<>>
    /\ pc' = "scan_access"
    /\ UNCHANGED <<content, readable, vectors_accessed, stdout, run,
                   first_stdout>>

\* ReadFails with the exception caught and the file reported as clean
ReadFailsCaught ==
    /\ pc = "open"
    /\ ~readable
    /\ stdout' = Append(stdout, [shape |-> "No issues found in", path |-> FilePath])
    /\ pc' = "done"
    /\ UNCHANGED <<content, readable, file_lines, issues, vectors_accessed,
                   run, first_stdout>>

\* open() or the decoding raises: the exception leaves analyze_cpp_file
ReadFails ==
    /\ pc = "open"
    /\ ~readable
    /\ pc' = "raised"
    /\ UNCHANGED <<content, readable, file_lines, issues, vectors_accessed,
                   stdout, run, first_stdout>>

\* issues += check_vector_access(file_lines)
ScanAccess ==
    /\ pc = "scan_access"
    /\ issues' = issues \o check_vector_access(file_lines)
    /\ pc' = "scan_empty"
    /\ UNCHANGED <<content, readable, file_lines, vectors_accessed, stdout,
                   run, first_stdout>>

\* issues += check_empty_before_access(file_lines)
ScanEmpty ==
    /\ pc = "scan_empty"
    /\ vectors_accessed' = AccessRecords(file_lines)
    /\ \E order \in IterationOrders(vectors_accessed') :
          issues' = issues \o MissingEmptyIssues(order, file_lines)
    /\ pc' = "print"
    /\ UNCHANGED <<content, readable, file_lines, stdout, run, first_stdout>>

\* PrintReport without the test of the issues list: the header always
PrintReportAlwaysHeader ==
    /\ pc = "print"
    /\ stdout' =
         Append(stdout, [shape |-> "Issues found in", path |-> FilePath])
         \o [i \in 1..Len(issues) |->
               [shape |-> "issue", indent |-> 2, issue |-> issues[i]]]
    /\ pc' = "done"
    /\ UNCHANGED <<content, readable, file_lines, issues, vectors_accessed,
                   run, first_stdout>>

\* the report: one line, or the header and one indented line per issue
PrintReport ==
    /\ pc = "print"
    /\ stdout' =
         IF issues = <<>>
         THEN Append(stdout, [shape |-> "No issues found in", path |-> FilePath])
         ELSE Append(stdout, [shape |-> "Issues found in", path |-> FilePath])
              \o [i \in 1..Len(issues) |->
                    [shape |-> "issue", indent |-> 2, issue |-> issues[i]]]
    /\ pc' = "done"
    /\ UNCHANGED <<content, readable, file_lines, issues, vectors_accessed,
                   run, first_stdout>>

\* the program is started again on the unchanged file, in a new process
RunAgain ==
    /\ pc = "done"
    /\ run = 1
    /\ run' = 2
    /\ first_stdout' = stdout
    /\ pc' = "open"
    /\ file_lines' = <<>>
    /\ issues' = <<>>
    /\ vectors_accessed' = {}
    /\ stdout' = <<>>
    /\ UNCHANGED <<content, readable>>

Next ==
    \/ ReadFile
    \/ ReadFails
    \/ ScanAccess
    \/ ScanEmpty
    \/ PrintReport

Spec == Init /\ [][Next]_vars

NextTwice == Next \/ RunAgain

SpecTwice == Init /\ [][NextTwice]_vars

(***************************************************************************)
(* What the text of a line holds, stated on the text alone: the shapes the *)
(* properties below speak of.  Nothing here scans or is greedy.            *)
(***************************************************************************)

\* the positions from..to all lie in the line and hold characters of class
AllIn(line, from, to, class) ==
    \A i \in from..to : i >= 1 /\ i <= Len(line) /\ line[i] \in class

\* a whole identifier of length k starts at pos
IdentifierAt(line, pos, k) ==
    /\ k >= 1
    /\ pos + k - 1 <= Len(line)
    /\ line[pos] \in IdentStartChars
    /\ AllIn(line, pos + 1, pos + k - 1, WordChars)
    /\ pos = 1 \/ line[pos - 1] \notin WordChars
    /\ pos + k > Len(line) \/ line[pos + k] \notin WordChars

\* from position from on: whitespace, the digits index, whitespace, close
IndexThenClose(line, from, index, close) ==
    /\ index # <<>>
    /\ AllIn(index, 1, Len(index), DigitChars)
    /\ \E b \in 0..Len(line) :
          /\ AllIn(line, from, from + b - 1, SpaceChars)
          /\ LiteralAt(line, from + b, index)
          /\ \E c \in 0..Len(line) :
                /\ AllIn(line, from + b + Len(index),
                         from + b + Len(index) + c - 1, SpaceChars)
                /\ CharAt(line, from + b + Len(index) + c, close)

\* name, a number of whitespace characters in gaps, "[", then the index and "]"
IndexedAccessAt(line, pos, name, index, gaps) ==
    /\ IdentifierAt(line, pos, Len(name))
    /\ LiteralAt(line, pos, name)
    /\ \E a \in gaps :
          /\ AllIn(line, pos + Len(name), pos + Len(name) + a - 1, SpaceChars)
          /\ CharAt(line, pos + Len(name) + a, "[")
          /\ IndexThenClose(line, pos + Len(name) + a + 1, index, "]")

\* name, ".at", whitespace, "(", then the index and ")"
SafeAccessAt(line, pos, name, index) ==
    /\ IdentifierAt(line, pos, Len(name))
    /\ LiteralAt(line, pos, name)
    /\ LiteralAt(line, pos + Len(name), <<".", "a", "t">>)
    /\ \E a \in 0..Len(line) :
          /\ AllIn(line, pos + Len(name) + 3, pos + Len(name) + 2 + a,
                   SpaceChars)
          /\ CharAt(line, pos + Len(name) + 3 + a, "(")
          /\ IndexThenClose(line, pos + Len(name) + 4 + a, index, ")")

\* name at a word start, ".", a number of whitespace characters in gaps,
\* "empty", whitespace, "(", whitespace, ")"
EmptyCheckAt(line, pos, name, gaps) ==
    /\ pos = 1 \/ line[pos - 1] \notin WordChars
    /\ LiteralAt(line, pos, name)
    /\ CharAt(line, pos + Len(name), ".")
    /\ \E a \in gaps :
          LET word == pos + Len(name) + 1 + a
          IN  /\ AllIn(line, pos + Len(name) + 1, word - 1, SpaceChars)
              /\ LiteralAt(line, word, <<"e", "m", "p", "t", "y">>)
              /\ \E b \in 0..Len(line) :
                    /\ AllIn(line, word + 5, word + 4 + b, SpaceChars)
                    /\ CharAt(line, word + 5 + b, "(")
                    /\ \E c \in 0..Len(line) :
                          /\ AllIn(line, word + 6 + b, word + 5 + b + c,
                                   SpaceChars)
                          /\ CharAt(line, word + 6 + b + c, ")")

AnyGap(line) == 0..Len(line)
NoGap == {0}

\* the identifiers of a line, each as <<position, length>>
IdentifiersOf(line) ==
    UNION { { <<pos, k>> : k \in { k \in 1..(Len(line) - pos + 1) :
                                     IdentifierAt(line, pos, k) } }
            : pos \in { p \in 1..Len(line) : line[p] \in IdentStartChars } }

\* the digit strings of a line
DigitStringsOf(line) ==
    UNION { { SubSeq(line, i, j) : j \in { j \in i..Len(line) :
                                             AllIn(line, i, j, DigitChars) } }
            : i \in { p \in 1..Len(line) : line[p] \in DigitChars } }

Occurrence(line, pos, k, index) ==
    [name |-> SubSeq(line, pos, pos + k - 1), index |-> index,
     start |-> pos - 1]

\* the occurrences of name[digits] in a line, whitespace allowed as in gaps
IndexedOccurrences(line, gaps) ==
    { Occurrence(line, t[1][1], t[1][2], t[2]) :
        t \in { t \in IdentifiersOf(line) \X DigitStringsOf(line) :
                  IndexedAccessAt(line, t[1][1],
                      SubSeq(line, t[1][1], t[1][1] + t[1][2] - 1), t[2],
                      gaps) } }

\* the occurrences of name.at(digits) in a line
SafeOccurrences(line) ==
    { Occurrence(line, t[1][1], t[1][2], t[2]) :
        t \in { t \in IdentifiersOf(line) \X DigitStringsOf(line) :
                  SafeAccessAt(line, t[1][1],
                      SubSeq(line, t[1][1], t[1][1] + t[1][2] - 1), t[2]) } }

(***************************************************************************)
(* The state a property looks at.                                          *)
(***************************************************************************)

Pass1Kinds == {"OutOfRangeWarning", "SafeAccessInfo"}

IssuesOfKind(kinds) == { i \in 1..Len(issues) : issues[i].kind \in kinds }

\* check_vector_access has just returned: issues is what it returned
AccessScanned == pc = "scan_empty"

\* analyze_cpp_file has returned
Reported == pc = "done"

LineNumbers == 1..Len(file_lines)

\* the (start, name, index) of the issues of one kind on one line
IssuedOn(kind, n) ==
    { [name |-> issues[i].name, index |-> issues[i].index,
       start |-> issues[i].start] :
        i \in { i \in IssuesOfKind({kind}) : issues[i].line = n } }

HowManyOn(kind, n) ==
    Cardinality({ i \in IssuesOfKind({kind}) : issues[i].line = n })

\* the MissingEmptyCheckWarnings for (name, n)
MissingFor(name, n) ==
    { i \in IssuesOfKind({"MissingEmptyCheckWarning"}) :
        issues[i].name = name /\ issues[i].line = n }

MissingForName(name) ==
    { i \in IssuesOfKind({"MissingEmptyCheckWarning"}) : issues[i].name = name }

\* line k holds an empty check of name
EmptyCheckOnLine(name, k, gaps) ==
    \E pos \in 1..Len(file_lines[k]) :
        EmptyCheckAt(file_lines[k], pos, name, gaps)

\* the (name, line) pairs of the text: an occurrence of either access on line n
AccessPairs ==
    UNION { { <<o.name, n>> :
                o \in IndexedOccurrences(file_lines[n], AnyGap(file_lines[n]))
                      \cup SafeOccurrences(file_lines[n]) }
            : n \in LineNumbers }

AccessedNames == { p[1] : p \in AccessPairs }

(***************************************************************************)
(* The properties.                                                         *)
(***************************************************************************)

\* C1: in the reported issue list every OutOfRangeWarning and SafeAccessInfo
\* precedes every MissingEmptyCheckWarning; the issues of pass 1 are in
\* increasing line number; on one line every '[]' warning precedes every
\* '.at()' info, and each of the two groups is in left-to-right match order.
C1_PassOrder ==
    Reported =>
        \A i, j \in 1..Len(issues) :
            (i < j) =>
                /\ (issues[j].kind \in Pass1Kinds) =>
                       (issues[i].kind \in Pass1Kinds)
                /\ (issues[i].kind \in Pass1Kinds
                        /\ issues[j].kind \in Pass1Kinds) =>
                       /\ issues[i].line <= issues[j].line
                       /\ (issues[i].line = issues[j].line) =>
                              /\ ~ (/\ issues[i].kind = "SafeAccessInfo"
                                    /\ issues[j].kind = "OutOfRangeWarning")
                              /\ (issues[i].kind = issues[j].kind) =>
                                     (issues[i].start < issues[j].start)

\* a report where a '[]' warning precedes the '.at()' info of a match that
\* stands further left on the same line, both before a missing-check warning
C1_Witness ==
    /\ Reported
    /\ \E i, j, k \in 1..Len(issues) :
          /\ i < j /\ j < k
          /\ issues[i].kind = "OutOfRangeWarning"
          /\ issues[j].kind = "SafeAccessInfo"
          /\ issues[k].kind = "MissingEmptyCheckWarning"
          /\ issues[i].line = issues[j].line
          /\ issues[j].start < issues[i].start

\* C2: an empty check of name n on any line of the file, be it before, after
\* or on the line of the access, leaves no MissingEmptyCheckWarning for n on
\* any line.
C2_FileWideSuppression ==
    Reported =>
        \A p \in AccessPairs :
            \A k \in LineNumbers :
                EmptyCheckOnLine(p[1], k, NoGap) => MissingForName(p[1]) = {}

\* an access whose only empty check stands on a later line, and no warning
C2_Witness ==
    /\ Reported
    /\ \E p \in AccessPairs :
          /\ \E k \in LineNumbers :
                k > p[2] /\ EmptyCheckOnLine(p[1], k, NoGap)
          /\ \A k \in LineNumbers :
                k <= p[2] => ~EmptyCheckOnLine(p[1], k, NoGap)
          /\ MissingForName(p[1]) = {}

\* C3: every (name, line) pair with an access on that line, whose name has no
\* empty check anywhere in the file, gets exactly one MissingEmptyCheckWarning
\* however often the name is accessed on the line; no other pair gets one.
C3_OneWarningPerPair ==
    Reported =>
        /\ \A p \in AccessPairs :
              Cardinality(MissingFor(p[1], p[2])) =
                  IF \E k \in LineNumbers : EmptyCheckOnLine(p[1], k, NoGap)
                  THEN 0 ELSE 1
        /\ \A i \in IssuesOfKind({"MissingEmptyCheckWarning"}) :
              <<issues[i].name, issues[i].line>> \in AccessPairs

\* a name accessed twice on one line and warned about once
C3_Witness ==
    /\ Reported
    /\ \E n \in LineNumbers :
          \E o1, o2 \in IndexedOccurrences(file_lines[n], AnyGap(file_lines[n]))
                        \cup SafeOccurrences(file_lines[n]) :
              /\ o1.name = o2.name
              /\ o1.start # o2.start
              /\ Cardinality(MissingFor(o1.name, n)) = 1

\* C4: the analysis run twice on the unchanged file prints the same report.
C4_Idempotent ==
    (run = 2 /\ pc = "done") => stdout = first_stdout

\* C5: the report of a readable file is the single line "No issues found in
\* {path}" when there is no issue (so for a file of zero lines), and
\* otherwise the header "Issues found in {path}:" followed by one line per
\* issue, indented by two spaces, in the order of the issue list; nothing is
\* printed before.
C5_ReportShape ==
    /\ ~Reported => stdout = <<>>
    /\ Reported =>
          /\ (content = <<>>) => issues = <<>>
          /\ (issues = <<>>) =>
                stdout = <<[shape |-> "No issues found in", path |-> FilePath]>>
          /\ (issues # <<>>) =>
                /\ Len(stdout) = 1 + Len(issues)
                /\ stdout[1] = [shape |-> "Issues found in", path |-> FilePath]
                /\ \A i \in 1..Len(issues) :
                      stdout[i + 1] =
                          [shape |-> "issue", indent |-> 2, issue |-> issues[i]]

\* a report of a header and at least two issue lines
C5_Witness ==
    /\ Reported
    /\ Len(issues) >= 2
    /\ Len(stdout) = 1 + Len(issues)

\* the pieces of a line whose bracket holds something other than digits
NonLiteralAt(line, pos, k) ==
    \E a \in 0..Len(line) :
        /\ AllIn(line, pos + k, pos + k + a - 1, SpaceChars)
        /\ CharAt(line, pos + k + a, "[")
        /\ \E b \in 0..Len(line) :
              /\ AllIn(line, pos + k + a + 1, pos + k + a + b, SpaceChars)
              /\ pos + k + a + b + 1 <= Len(line)
              /\ line[pos + k + a + b + 1] \notin DigitChars \cup SpaceChars

\* C6: after check_vector_access the OutOfRangeWarnings of a line are, one
\* for one, the occurrences of name[digits] in it, and the SafeAccessInfos
\* the occurrences of name.at(digits), each with the occurrence's name, index
\* and 1-based line; an .at() occurrence gets no OutOfRangeWarning; an
\* identifier whose bracket holds no decimal literal gets no issue.
C6_OneIssuePerOccurrence ==
    AccessScanned =>
        /\ \A i \in IssuesOfKind(Pass1Kinds) : issues[i].line \in LineNumbers
        /\ \A n \in LineNumbers :
              LET line    == file_lines[n]
                  indexed == IndexedOccurrences(line, AnyGap(line))
                  safe    == SafeOccurrences(line)
              IN  /\ IssuedOn("OutOfRangeWarning", n) = indexed
                  /\ HowManyOn("OutOfRangeWarning", n) = Cardinality(indexed)
                  /\ IssuedOn("SafeAccessInfo", n) = safe
                  /\ HowManyOn("SafeAccessInfo", n) = Cardinality(safe)
                  /\ \A o \in safe :
                        \A w \in IssuedOn("OutOfRangeWarning", n) :
                            w.start # o.start
                  /\ \A t \in IdentifiersOf(line) :
                        NonLiteralAt(line, t[1], t[2]) =>
                            \A kind \in Pass1Kinds :
                                \A w \in IssuedOn(kind, n) :
                                    w.start # t[1] - 1

\* a line with a name[digits], a name.at(digits) and a name[i]
C6_Witness ==
    /\ AccessScanned
    /\ \E n \in LineNumbers :
          /\ IssuedOn("OutOfRangeWarning", n) # {}
          /\ IssuedOn("SafeAccessInfo", n) # {}
          /\ \E t \in IdentifiersOf(file_lines[n]) :
                NonLiteralAt(file_lines[n], t[1], t[2])

\* C7: when the file cannot be read the operation raises and prints nothing;
\* for every readable content no step raises and the operation ends with a
\* report printed.
C7_OnlyReadFails ==
    /\ ~readable => (stdout = <<>> /\ pc \in {"open", "raised"})
    /\ readable =>
          /\ pc \in {"open", "scan_access", "scan_empty", "print", "done"}
          /\ (pc = "done") => stdout # <<>>

\* the unreadable file: raised, nothing printed
C7_Witness ==
    /\ pc = "raised"
    /\ ~readable
    /\ stdout = <<>>

\* C8 as claimed: an OutOfRangeWarning or an access record needs the
\* identifier immediately followed by '['.
C8_ImmediatelyFollowed ==
    Reported =>
        \A n \in LineNumbers :
            /\ IssuedOn("OutOfRangeWarning", n)
                   \subseteq IndexedOccurrences(file_lines[n], NoGap)
            /\ \A p \in vectors_accessed :
                  (p[2] = n) =>
                      \E o \in IndexedOccurrences(file_lines[n], NoGap)
                               \cup SafeOccurrences(file_lines[n]) :
                          o.name = p[1]

\* C8: an IndexedAccess match is the identifier, optional whitespace, '[',
\* optional whitespace, digits, optional whitespace, ']': every such text,
\* with or without whitespace before '[', produces an OutOfRangeWarning and
\* an access record, and every OutOfRangeWarning comes from such a text.
C8_WhitespaceBeforeBracket ==
    Reported =>
        \A n \in LineNumbers :
            LET line == file_lines[n]
            IN  /\ \A o \in IndexedOccurrences(line, AnyGap(line)) :
                      /\ o \in IssuedOn("OutOfRangeWarning", n)
                      /\ <<o.name, n>> \in vectors_accessed
                /\ \A w \in IssuedOn("OutOfRangeWarning", n) :
                      IndexedAccessAt(line, w.start + 1, w.name, w.index,
                                      AnyGap(line))

\* a warning and a record for an identifier that whitespace separates from '['
C8_Witness ==
    /\ Reported
    /\ \E n \in LineNumbers :
          \E w \in IssuedOn("OutOfRangeWarning", n) :
              /\ CharAt(file_lines[n], w.start + 1 + Len(w.name), " ")
              /\ <<w.name, n>> \in vectors_accessed

\* C9 as claimed: a text n '.' whitespace 'empty' ... also counts as an empty
\* check of n and suppresses the warnings for n.
C9_DotWhitespaceCounts ==
    Reported =>
        \A name \in AccessedNames :
            (\E k \in LineNumbers :
                 EmptyCheckOnLine(name, k, AnyGap(file_lines[k])))
                => MissingForName(name) = {}

\* C9: an empty check of n is n, '.empty' with nothing between '.' and
\* 'empty', optional whitespace, '(', optional whitespace, ')'.  The
\* warnings for an accessed name are suppressed exactly when such a text
\* stands somewhere in the file.
C9_EmptyCheckShape ==
    Reported =>
        \A name \in AccessedNames :
            (MissingForName(name) = {})
                <=> (\E k \in LineNumbers : EmptyCheckOnLine(name, k, NoGap))

\* an accessed name whose only empty-check-like text has whitespace after
\* the '.', and which is warned about
C9_Witness ==
    /\ Reported
    /\ \E name \in AccessedNames :
          /\ \E k \in LineNumbers :
                EmptyCheckOnLine(name, k, AnyGap(file_lines[k]))
          /\ \A k \in LineNumbers : ~EmptyCheckOnLine(name, k, NoGap)
          /\ MissingForName(name) # {}

\* C10: the pairs collected by check_empty_before_access are the (name, line)
\* pairs of the issues of check_vector_access; so every
\* MissingEmptyCheckWarning has an OutOfRangeWarning or SafeAccessInfo of its
\* (name, line) in the report, and they are no more than the pass-1 issues.
C10_SamePairs ==
    Reported =>
        LET pairs1 == { <<issues[i].name, issues[i].line>> :
                          i \in IssuesOfKind(Pass1Kinds) }
        IN  /\ vectors_accessed = pairs1
            /\ \A i \in IssuesOfKind({"MissingEmptyCheckWarning"}) :
                  <<issues[i].name, issues[i].line>> \in pairs1
            /\ Cardinality(IssuesOfKind({"MissingEmptyCheckWarning"}))
                   <= Cardinality(IssuesOfKind(Pass1Kinds))

\* two pass-1 issues of one (name, line) pair, and its one warning
C10_Witness ==
    /\ Reported
    /\ Cardinality(vectors_accessed) = 1
    /\ Cardinality(IssuesOfKind(Pass1Kinds)) = 2
    /\ Cardinality(IssuesOfKind({"MissingEmptyCheckWarning"})) = 1

====
